---- MODULE Spec2Model ----
(***************************************************************************)
(* A model of two numerical kernels of pyPRISM:                            *)
(*   - the PercusYevick atomic closure (typyPRISM/closure/PercusYevick.py),*)
(*     a stateful evaluator with the fields potential, value, sigma and    *)
(*     apply_hard_core and the method calculate(r, gamma);                 *)
(*   - the WeeksChandlerAndersen potential                                 *)
(*     (pyPRISM/potential/WeeksChandlerAndersen.py), a LennardJones        *)
(*     potential constructed with a derived cutoff and a forced shift.     *)
(*                                                                         *)
(* Numbers.  A float is a record [nan, v]: either NaN or the integer v.    *)
(* Energies handed to a closure are counted in units of ln 2, so that      *)
(* exp(-u) = 2^(-u) is exact: 1 for u = 0, 2 for u = -ln 2.  Distances     *)
(* handed to a closure are integers.                                       *)
(*                                                                         *)
(* Optional values.  A field that may be None holds a set: {} is None,     *)
(* {x} is x.                                                               *)
(***************************************************************************)
EXTENDS Integers, Sequences, FiniteSets, TLC

\* ---------------------------------------------------------------- bounds
\* The longest array handed to a closure or a potential.
MaxLen == 2
\* The number of array buffers of the heap.
NumBuffers == 2

\* --------------------------------------------------------------- options
None == {}
Some(x) == {x}
The(o) == CHOOSE x \in o : TRUE

\* ---------------------------------------------------------------- floats
Num(n) == [nan |-> FALSE, v |-> n]
NaN == [nan |-> TRUE, v |-> 0]

RECURSIVE Pow2(_)
Pow2(k) == IF k <= 0 THEN 1 ELSE 2 * Pow2(k - 1)

\* np.exp(-u) for an energy u <= 0 counted in units of ln 2.
ExpNeg(u) == IF u.nan THEN NaN ELSE Num(Pow2(-u.v))

FSub(a, b) == IF a.nan \/ b.nan THEN NaN ELSE Num(a.v - b.v)
FAdd(a, b) == IF a.nan \/ b.nan THEN NaN ELSE Num(a.v + b.v)
FMul(a, b) == IF a.nan \/ b.nan THEN NaN ELSE Num(a.v * b.v)

\* ---------------------------------------------------------------- arrays
Arrays(S) == UNION {[1..n -> S] : n \in 1..MaxLen}

\* Boolean-array indexing a[mask]: the entries of a where mask is True, in order.
RECURSIVE Compress(_, _, _)
Compress(a, mask, i) ==
    IF i > Len(a) THEN <<>>
    ELSE (IF mask[i] THEN <<a[i]>> ELSE <<>>) \o Compress(a, mask, i + 1)
BoolIndex(a, mask) == Compress(a, mask, 1)

\* The number of True entries of mask[1..i].
RECURSIVE CountTrue(_, _)
CountTrue(mask, i) ==
    IF i = 0 THEN 0 ELSE CountTrue(mask, i - 1) + (IF mask[i] THEN 1 ELSE 0)

\* Boolean-array assignment a[mask] = vals: the k-th True position takes vals[k].
MaskedAssign(a, mask, vals) ==
    [i \in 1..Len(a) |-> IF mask[i] THEN vals[CountTrue(mask, i)] ELSE a[i]]

\* ------------------------------------------------------ input alphabets
\* gamma values: finite floats.
GammaVals == {Num(0), Num(1)}
\* Potential energies, in units of ln 2: attractive (-ln 2), and one that
\* has no finite value (NaN), as inside a core where the potential diverges.
PotentialVals == {Num(-1), NaN}
\* Contact distances, and grid distances below, at and above them.
SigmaVals == {2}
RVals == {1, 2, 3}
\* gamma arrays: the entries in non-decreasing order.
GammaArrays ==
    {g \in Arrays(GammaVals) : \A i \in 1..(Len(g) - 1) : g[i].v <= g[i + 1].v}
\* Potential arrays: the entries without a finite value are those at the
\* shortest distances.
PotentialArrays ==
    {u \in Arrays(PotentialVals) : \A i \in 1..(Len(u) - 1) : u[i + 1].nan => u[i].nan}
\* Real-space grids: uniformly spaced, increasing positive distances.
Grids == {g \in Arrays(RVals) : \A i \in 1..(Len(g) - 1) : g[i + 1] = g[i] + 1}

\* ------------------------------------------------------------------ heap
\* Result arrays live in buffers; closure.value holds a buffer's address, so
\* that two references to one array can be told from two equal arrays.
Addr == 1..NumBuffers
EmptyHeap == <<>>
Live(h) == DOMAIN h
Store(h, a, arr) == [b \in Live(h) \cup {a} |-> IF b = a THEN arr ELSE h[b]]
Restrict(h, keep) == [b \in Live(h) \cap keep |-> h[b]]
Deref(h, ref) == IF ref = None THEN None ELSE Some(h[The(ref)])

\* A mutant of NewBuffer: the result is written into the buffer value
\* already names (an in-place update).
NewBufferInPlace(self, h) ==
    IF self.value # None THEN The(self.value)
    ELSE CHOOSE a \in Addr \ Live(h) : \A b \in Addr \ Live(h) : a <= b

\* The buffer an array expression such as -1 - gamma allocates: one that
\* nothing refers to, whatever self.value names.
NewBuffer(self, h) ==
    CHOOSE a \in Addr \ Live(h) : \A b \in Addr \ Live(h) : a <= b

\* ------------------------------------------------- PercusYevick closure
\* PercusYevick.__init__(apply_hard_core)
PercusYevick(apply_hard_core) ==
    [potential |-> None, value |-> None, sigma |-> None,
     apply_hard_core |-> apply_hard_core]

\* -1 - gamma
HardCoreValue(gamma) == [i \in 1..Len(gamma) |-> FSub(Num(-1), gamma[i])]

\* A mutant of ClosureFormula: the factor 1 + gamma replaced by gamma.
ClosureFormula_gamma(u, gamma) ==
    [i \in 1..Len(u) |-> FMul(FSub(ExpNeg(u[i]), Num(1)), gamma[i])]

\* (np.exp(-u) - 1.0) * (1.0 + gamma), elementwise over two arrays of one length
ClosureFormula(u, gamma) ==
    [i \in 1..Len(u) |-> FMul(FSub(ExpNeg(u[i]), Num(1)), FAdd(Num(1), gamma[i]))]

\* A mutant of OutsideCore: the boundary point counted as outside the core.
OutsideCore_inclusive(r, sigma) ==
    [i \in 1..Len(r) |-> IF sigma = None THEN TRUE ELSE r[i] >= The(sigma)]

\* r > self.sigma.  With sigma None the comparison depends on the
\* interpreter: Python 2 orders None below every number, so every entry is
\* True; Python 3 raises TypeError, which compute decides before it takes
\* the mask.
OutsideCore(r, sigma) ==
    [i \in 1..Len(r) |-> IF sigma = None THEN TRUE ELSE r[i] > The(sigma)]

NoFault == "none"
PotentialNotSet == "AssertionError: Potential for this closure is not set!"
DomainMismatch == "AssertionError: Domain mismatch!"
TypeError == "TypeError"
IndexError == "IndexError"

\* How a call ends: the closure and the heap as the call leaves them, the
\* caller's arrays as the call leaves them, the fault raised, the reference
\* returned.
Raise(self, h, r, gamma, fault) ==
    [self |-> self, heap |-> h, r |-> r, gamma |-> gamma,
     raised |-> fault, result |-> None]
Return(self, h, r, gamma) ==
    [self |-> self, heap |-> h, r |-> r, gamma |-> gamma,
     raised |-> NoFault, result |-> self.value]

\* A mutant of Precondition: the two assertions in the other order, so that
\* len(self.potential) is taken of None.
Precondition_swapped(self, gamma) ==
    IF self.potential = None THEN TypeError
    ELSE IF Len(gamma) # Len(The(self.potential)) THEN DomainMismatch
    ELSE NoFault

\* The two assertions that open calculate.
Precondition(self, gamma) ==
    IF self.potential = None THEN PotentialNotSet
    ELSE IF Len(gamma) # Len(The(self.potential)) THEN DomainMismatch
    ELSE NoFault

\* PercusYevick.calculate(r, gamma), statement by statement.
compute(self, h, r, gamma, py2) ==
    IF Precondition(self, gamma) # NoFault
    THEN Raise(self, h, r, gamma, Precondition(self, gamma))
    ELSE IF self.apply_hard_core
    THEN
        \* self.value = -1 - gamma
        LET a == NewBuffer(self, h)
            self1 == [self EXCEPT !.value = Some(a)]
            h1 == Store(h, a, HardCoreValue(gamma))
        IN  \* mask = r > self.sigma
            IF self.sigma = None /\ ~py2
            THEN Raise(self1, h1, r, gamma, TypeError)
            ELSE
            LET mask == OutsideCore(r, self.sigma)
            IN  \* self.potential[mask], gamma[mask], self.value[mask]
                IF Len(mask) # Len(The(self.potential))
                THEN Raise(self1, h1, r, gamma, IndexError)
                ELSE
                LET rhs == ClosureFormula(BoolIndex(The(self.potential), mask),
                                          BoolIndex(gamma, mask))
                IN  Return(self1, Store(h1, a, MaskedAssign(h1[a], mask, rhs)),
                           r, gamma)
    ELSE
        \* self.value = (np.exp(-self.potential) - 1.0) * (1.0 + gamma)
        LET a == NewBuffer(self, h)
        IN  Return([self EXCEPT !.value = Some(a)],
                   Store(h, a, ClosureFormula(The(self.potential), gamma)),
                   r, gamma)

\* A mutant of calculate: a cached value of the right length is returned
\* without being recomputed.
calculate_cached(self, h, r, gamma, py2) ==
    IF /\ self.potential # None
       /\ self.value # None
       /\ Len(gamma) = Len(h[The(self.value)])
    THEN Return(self, h, r, gamma)
    ELSE compute(self, h, r, gamma, py2)

calculate(self, h, r, gamma, py2) == compute(self, h, r, gamma, py2)

\* ----------------------------------------------------------------- state
VARIABLES
    closure,    \* the PercusYevick instance: potential, value, sigma, apply_hard_core
    heap,       \* the arrays calculate has allocated that are still referred to
    grid,       \* the domain's real-space grid r, handed to every calculate call
    last,       \* how the most recent operation on the closure ended
    returned,   \* the array the most recent successful calculate call returned
                \* (tracked under SpecReturned only)
    lj,         \* the constructed potential: epsilon, sigma, rcut, shift
    args,       \* the arguments the potential was constructed with
    U           \* the energies of the most recent evaluation of the potential

vars == <<closure, heap, grid, last, returned, lj, args, U>>
closureVars == <<closure, heap, grid, last, returned>>
potentialVars == <<lj, args, U>>

\* The interpreters the module runs under (from __future__ import ...: both):
\* py2 is TRUE under Python 2, FALSE under Python 3.
Interpreters == BOOLEAN

InitClosure ==
    /\ \E ahc \in BOOLEAN : closure = PercusYevick(ahc)
    /\ heap = EmptyHeap
    /\ grid \in Grids
    /\ last = "constructed"
    /\ returned = None

\* closure.potential = u (the orchestrator binds the evaluated potential)
BindPotential(u) ==
    /\ closure' = [closure EXCEPT !.potential = Some(u)]
    /\ last' = "bound"
    /\ UNCHANGED <<heap, grid, returned>>

\* closure.sigma = s (the orchestrator binds the contact distance)
BindSigma(s) ==
    /\ closure' = [closure EXCEPT !.sigma = Some(s)]
    /\ last' = "bound"
    /\ UNCHANGED <<heap, grid, returned>>

\* closure.calculate(grid, gamma): the call, then the collection of the
\* buffers nothing refers to any more.
Calculate(gamma, py2) ==
    LET out == calculate(closure, heap, grid, gamma, py2)
    IN  /\ closure' = out.self
        /\ heap' = Restrict(out.heap, out.self.value)
        /\ grid' = out.r
        /\ last' = (IF out.raised = NoFault THEN "returned" ELSE out.raised)

\* The caller keeps what a successful call returned.
KeepReturned(gamma, py2) ==
    LET out == calculate(closure, heap, grid, gamma, py2)
    IN  returned' = IF out.raised = NoFault THEN Deref(out.heap, out.result)
                    ELSE returned

DoBindPotential == \E u \in PotentialArrays : BindPotential(u)
DoBindSigma == \E s \in SigmaVals : BindSigma(s)
DoCalculate == \E gamma \in GammaArrays, py2 \in Interpreters : Calculate(gamma, py2)
DoCalculateReturned ==
    \E gamma \in GammaArrays, py2 \in Interpreters :
        Calculate(gamma, py2) /\ KeepReturned(gamma, py2)

\* --------------------------------------------- WeeksChandlerAndersen
\* Lengths are powers of 2^(1/6): the length with exponent e is 2^(e/6), so
\* that sigma * 2**(1.0/6.0) is exact.  Energies are integers in units of
\* 1/EnergyScale.
MaxSigmaExp == 2
MaxRExp == 4
EnergyScale == Pow2(2 * MaxRExp)
EpsilonVals == {-1, 1, 2}
SigmaExps == 0..MaxSigmaExp
RExpGrids ==
    {g \in Arrays(0..MaxRExp) : \A i \in 1..(Len(g) - 1) : g[i] < g[i + 1]}

\* (sigma/r)**6.0 and (sigma/r)**12.0, times EnergyScale
Ratio6(sigma, r) == Pow2(sigma - r + 2 * MaxRExp)
Ratio12(sigma, r) == Pow2(2 * (sigma - r) + 2 * MaxRExp)

\* The base form's constructor: the parameters are stored as given.
LennardJones(epsilon, sigma, rcut, shift) ==
    [epsilon |-> epsilon, sigma |-> sigma, rcut |-> rcut, shift |-> shift]

\* The base form's two-term expression at one distance.
LJ_raw(p, r) == 4 * p.epsilon * (Ratio12(p.sigma, r) - Ratio6(p.sigma, r))

\* The base form's evaluation: the raw expression, shifted by +epsilon below
\* the cutoff when shift is set, and forced to 0 from the cutoff on.
LJ_calculate(p, r) ==
    [i \in 1..Len(r) |->
        IF p.rcut # None /\ r[i] >= The(p.rcut) THEN 0
        ELSE LJ_raw(p, r[i])
             + (IF p.rcut # None /\ p.shift THEN p.epsilon * EnergyScale ELSE 0)]

\* A mutant of WCA_rcut: the cutoff at sigma itself.
WCA_rcut_at_sigma(sigma) == sigma

\* rcut = sigma * 2**(1.0/6.0)
WCA_rcut(sigma) == sigma + 1

\* A mutant of WeeksChandlerAndersen: the shift is left at the base form's
\* default.
WeeksChandlerAndersen_unshifted(epsilon, sigma) ==
    LennardJones(epsilon, sigma, Some(WCA_rcut(sigma)), FALSE)

\* WeeksChandlerAndersen.__init__(epsilon, sigma)
WeeksChandlerAndersen(epsilon, sigma) ==
    LennardJones(epsilon, sigma, Some(WCA_rcut(sigma)), TRUE)

\* WeeksChandlerAndersen defines no calculate: the base form's is inherited.
WCA_calculate(p, r) == LJ_calculate(p, r)

InitPotential ==
    \E epsilon \in EpsilonVals, sigma \in SigmaExps :
        /\ args = [epsilon |-> epsilon, sigma |-> sigma]
        /\ lj = WeeksChandlerAndersen(epsilon, sigma)
        /\ U = None

\* potential.calculate(r)
Evaluate(r) ==
    /\ U' = Some([r |-> r, energy |-> WCA_calculate(lj, r)])
    /\ UNCHANGED <<lj, args>>

DoEvaluate == \E r \in RExpGrids : Evaluate(r)

\* ------------------------------------------------------- specifications
\* One closure instance under its orchestrator.
Init ==
    /\ InitClosure
    /\ lj = None /\ args = None /\ U = None
Next ==
    \/ DoBindPotential /\ UNCHANGED potentialVars
    \/ DoBindSigma /\ UNCHANGED potentialVars
    \/ DoCalculate /\ UNCHANGED <<returned, lj, args, U>>
Spec == Init /\ [][Next]_vars

\* The same instance, with the caller's record of what calculate returned.
NextReturned ==
    \/ DoBindPotential /\ UNCHANGED potentialVars
    \/ DoBindSigma /\ UNCHANGED potentialVars
    \/ DoCalculateReturned /\ UNCHANGED potentialVars
SpecReturned == Init /\ [][NextReturned]_vars

\* One WeeksChandlerAndersen instance under its caller.
InitWCA ==
    /\ InitPotential
    /\ closure = PercusYevick(FALSE) /\ heap = EmptyHeap /\ grid = <<1>>
    /\ last = "constructed" /\ returned = None
NextWCA == DoEvaluate /\ UNCHANGED closureVars
SpecWCA == InitWCA /\ [][NextWCA]_vars

\* ================================================================ claims
\* What a call made now would do, and what the closure caches.
Call(gamma, py2) == calculate(closure, heap, grid, gamma, py2)
Cached(self, h) == Deref(h, self.value)
Bound == closure.potential # None
u_bound == The(closure.potential)
\* The closure formula at one grid point, written out.
Formula(u, g) == FMul(FSub(ExpNeg(u), Num(1)), FAdd(Num(1), g))

C2_FormulaEverywhere ==
    \A gamma \in GammaArrays, py2 \in Interpreters :
        ( /\ ~closure.apply_hard_core
          /\ Bound
          /\ Len(gamma) = Len(u_bound) )
        => LET out == Call(gamma, py2)
               c == The(Cached(out.self, out.heap))
           IN  /\ out.raised = NoFault
               /\ out.result # None
               /\ out.result = out.self.value
               /\ Len(c) = Len(gamma)
               /\ \A i \in 1..Len(gamma) : c[i] = Formula(u_bound[i], gamma[i])

\* C2 witness: a call without the hard-core policy has returned a finite,
\* non-zero entry, with sigma unbound and a grid of another length than the
\* potential.
C2_Witness ==
    /\ last = "returned"
    /\ ~closure.apply_hard_core
    /\ closure.sigma = None
    /\ Bound
    /\ Len(grid) # Len(u_bound)
    /\ \E i \in 1..Len(u_bound) : The(Cached(closure, heap))[i] = Num(2)

\* C3: with potential unbound calculate raises 'potential not set', with
\* len(gamma) # len(potential) it raises 'domain mismatch'; either way no
\* array is computed and potential, value and sigma stay as they were.
C3_PreconditionFaults ==
    \A gamma \in GammaArrays, py2 \in Interpreters :
        LET out == Call(gamma, py2)
        IN  /\ ~Bound
                => /\ out.raised = PotentialNotSet
                   /\ out.result = None
                   /\ out.self = closure
                   /\ out.heap = heap
            /\ (Bound /\ Len(gamma) # Len(u_bound))
                => /\ out.raised = DomainMismatch
                   /\ out.result = None
                   /\ out.self = closure
                   /\ out.heap = heap

\* C3 witness: a call has raised 'domain mismatch' on a closure that holds a
\* value computed earlier.
C3_Witness ==
    /\ last = DomainMismatch
    /\ closure.value # None
    /\ Bound

\* C4 (as claimed): a call whose r has another length than gamma and
\* potential (which agree) faults, with or without the hard-core policy, and
\* leaves value as it was.
C4_GridMismatchFaults ==
    [][\A gamma \in GammaArrays, py2 \in Interpreters :
        ( /\ Bound
          /\ Len(gamma) = Len(u_bound)
          /\ Len(grid) # Len(gamma)
          /\ Calculate(gamma, py2) )
        => /\ last' # "returned"
           /\ Cached(closure', heap') = Cached(closure, heap)]_vars

\* C5 (as claimed): value is None until a calculate call has succeeded, and
\* from then on it is the array the latest successful call returned.
C5_ValueIsLastReturned == Cached(closure, heap) = returned

\* C6: the outcome of calculate depends on the bindings and the inputs only:
\* it is what a closure with the same bindings and no cached value gives,
\* and a second call with the same inputs gives it again and leaves the same
\* state.
Unvalued(self) == [self EXCEPT !.value = None]
SameOutcome(a, b) ==
    /\ a.raised = b.raised
    /\ (a.result = None) = (b.result = None)
    /\ Unvalued(a.self) = Unvalued(b.self)
    /\ Cached(a.self, a.heap) = Cached(b.self, b.heap)
    /\ Deref(a.heap, a.result) = Deref(b.heap, b.result)
C6_HistoryIndependent ==
    \A gamma \in GammaArrays, py2 \in Interpreters :
        LET out == Call(gamma, py2)
            fresh == calculate(Unvalued(closure), EmptyHeap, grid, gamma, py2)
            again == calculate(out.self, Restrict(out.heap, out.self.value),
                               grid, gamma, py2)
        IN  /\ out.raised = NoFault => SameOutcome(out, fresh)
            /\ SameOutcome(again, out)

\* C6 witness: a call has returned into the second buffer, so value held an
\* earlier array when the call was made.
C6_Witness ==
    /\ last = "returned"
    /\ closure.value # None
    /\ \A a \in Addr : a < The(closure.value) => a \notin Live(heap)
    /\ \E a \in Addr : a < The(closure.value)

\* C7: the constructed potential has the parameters of the base form built
\* with the same epsilon and sigma, rcut = sigma * 2^(1/6) and shift = True,
\* and evaluates as the base form does under them.
C7_Base == LennardJones(args.epsilon, args.sigma, Some(args.sigma + 1), TRUE)
C7_IsShiftedCutBaseForm ==
    /\ lj = C7_Base
    /\ lj.epsilon = args.epsilon
    /\ lj.sigma = args.sigma
    /\ lj.rcut = Some(args.sigma + 1)
    /\ lj.shift = TRUE
    /\ U # None => The(U).energy = LJ_calculate(C7_Base, The(U).r)

\* C7 witness: the potential has been evaluated on a grid with a point below
\* the cutoff where the shifted energy is not the raw one.
C7_Witness ==
    /\ U # None
    /\ \E i \in 1..Len(The(U).r) :
        /\ The(U).r[i] < args.sigma + 1
        /\ The(U).energy[i] # LJ_raw(lj, The(U).r[i])

\* C8: for epsilon > 0 the energy is 0 at every grid point with r >= rcut =
\* sigma * 2^(1/6), is 4 epsilon [(sigma/r)^12 - (sigma/r)^6] + epsilon at
\* every grid point with r < rcut, and is nowhere negative.
C8_RepulsiveOnly ==
    (args.epsilon > 0 /\ U # None)
    => \A i \in 1..Len(The(U).r) :
        LET r == The(U).r[i]
            e == The(U).energy[i]
        IN  /\ r >= args.sigma + 1 => e = 0
            /\ r < args.sigma + 1
                => e = 4 * args.epsilon
                         * (Ratio12(args.sigma, r) - Ratio6(args.sigma, r))
                       + args.epsilon * EnergyScale
            /\ e >= 0

\* C8 witness: a potential with epsilon > 0 has been evaluated on a grid with
\* a point at the cutoff and a point at sigma, where the energy is epsilon.
C8_Witness ==
    /\ args.epsilon > 0
    /\ U # None
    /\ \E i, j \in 1..Len(The(U).r) :
        /\ The(U).r[i] = args.sigma + 1
        /\ The(U).r[j] = args.sigma
        /\ The(U).energy[j] = args.epsilon * EnergyScale

\* C9: a calculate call, returning or faulting, leaves the caller's r and
\* gamma, the potential, sigma and apply_hard_core as they were; when it
\* writes value it writes a buffer nothing referred to, and every array that
\* existed before the call is as it was.
C9_Frame ==
    \A gamma \in GammaArrays, py2 \in Interpreters :
        LET out == Call(gamma, py2)
        IN  /\ out.r = grid
            /\ out.gamma = gamma
            /\ out.self.potential = closure.potential
            /\ out.self.sigma = closure.sigma
            /\ out.self.apply_hard_core = closure.apply_hard_core
            /\ \A a \in Live(heap) : a \in Live(out.heap) /\ out.heap[a] = heap[a]
            /\ out.self.value # closure.value
                => /\ out.self.value # None
                   /\ The(out.self.value) \notin Live(heap)
                   /\ The(out.self.value) \in Live(out.heap)

\* C9 witness: a hard-core call has faulted after writing value, on a closure
\* whose earlier array was still referred to when the call was made.
C9_Witness ==
    /\ last \in {TypeError, IndexError}
    /\ closure.value # None
    /\ \E a \in Addr : a < The(closure.value)

\* C10 (as claimed): a hard-core call with potential bound, sigma never bound
\* and matching lengths faults and leaves value as it was.
C10_UnboundSigmaFaults ==
    [][\A gamma \in GammaArrays, py2 \in Interpreters :
        ( /\ closure.apply_hard_core
          /\ Bound
          /\ closure.sigma = None
          /\ Len(gamma) = Len(u_bound)
          /\ Len(grid) = Len(gamma)
          /\ Calculate(gamma, py2) )
        => /\ last' # "returned"
           /\ Cached(closure', heap') = Cached(closure, heap)]_vars

====
